---- MODULE Spec2Model ----
(* Model of src/game.py: the Game variants Count, Narrow, Bandit,          *)
(* RockPaperScissors and TicTacToe as pure transition functions, a caller  *)
(* that drives one play of a variant through start/valid/step, the         *)
(* memoize decorator wrapped around TicTacToe.valid and TicTacToe.step     *)
(* (called sequentially and from several threads), and Checkers.step over  *)
(* the external board engine; and of src/util.py: softmax and sample.      *)
(*                                                                         *)
(* Python tuples are functions over 0..n-1, so state[0] reads as in the    *)
(* source.  An optional value is a set: None is {} and a present value x   *)
(* is {x}.                                                                 *)
EXTENDS Integers, Sequences, FiniteSets, TLC

None == {}

Some(x) == {x}

(* the tuple (s[1], ..., s[n]) with Python's 0-based indexing *)
Tup(s) == [i \in 0..(Len(s) - 1) |-> s[i + 1]]

len(t) == Cardinality(DOMAIN t)

(* ---- what a call of step can produce ---------------------------------- *)
(* a `return a, b, c` statement: the 3-tuple (next_state, next_player, outcome) *)
Return(ns, np, oc) ==
    [kind |-> "tuple", next_state |-> ns, next_player |-> np, outcome |-> oc]

(* falling off the end of the function body: a bare None *)
ReturnNone == [kind |-> "None", next_state |-> None, next_player |-> None, outcome |-> None]

(* a failed assert: AssertionError propagates, nothing is returned *)
Raise == [kind |-> "raise", next_state |-> None, next_player |-> None, outcome |-> None]

(* ---- Count ------------------------------------------------------------ *)
CountStart == Tup(<<0>>)

CountValid(state) == [i \in 0..2 |-> TRUE]

CountStepNoWinCheck(state, action) ==
    IF state[0] + 1 = action
    THEN Return(Some(Tup(<<action>>)), Some(1), None)
    ELSE Return(None, None, Some(-1))

CountStep(state, action) ==
    IF state[0] + 1 = action
    THEN IF action = 2
         THEN Return(None, None, Some(1))
         ELSE Return(Some(Tup(<<action>>)), Some(1), None)
    ELSE Return(None, None, Some(-1))

(* ---- Narrow ----------------------------------------------------------- *)
NarrowStart == Tup(<<3>>)

NarrowValidRange(state) == [i \in 0..(state[0] - 1) |-> TRUE]

NarrowValid(state) == [i \in 0..2 |-> i < state[0]]

NarrowStepKeepBound(state, action) ==
    IF ~(action < state[0])
    THEN Raise
    ELSE IF action = 0
         THEN Return(None, None, Some(-1))
         ELSE Return(Some(state), Some(1), None)

NarrowStep(state, action) ==
    IF ~(action < state[0])
    THEN Raise
    ELSE IF action = 0
         THEN Return(None, None, Some(-1))
         ELSE Return(Some(Tup(<<action>>)), Some(1), None)

(* ---- Bandit ----------------------------------------------------------- *)
(* random.randint(0, 9) is inclusive at both ends *)
BanditStart == {Tup(<<h>>) : h \in 0..9}

BanditValid(state) == [i \in 0..9 |-> TRUE]

BanditStepOffByOne(state, action) ==
    Return(None, None, Some(IF state[0] = action + 1 THEN 1 ELSE -1))

(* `None, None, +1 if c else -1` parses as (None, None, (+1 if c else -1)) *)
BanditStep(state, action) ==
    Return(None, None, Some(IF state[0] = action THEN 1 ELSE -1))

(* ---- RockPaperScissors ------------------------------------------------ *)
RPSStart == Tup(<<-1>>)

RPSValid(state) == [i \in 0..2 |-> TRUE]

RPSStepSwapped(state, action) ==
    IF state[0] < 0 THEN Return(Some(Tup(<<action>>)), Some(-1), None)
    ELSE IF state[0] = action THEN Return(None, None, Some(0))
    ELSE IF state[0] = (action - 1) % 3 THEN Return(None, None, Some(1))
    ELSE IF state[0] = (action + 1) % 3 THEN Return(None, None, Some(-1))
    ELSE ReturnNone

RPSStepNoDraw(state, action) ==
    IF state[0] < 0 THEN Return(Some(Tup(<<action>>)), Some(-1), None)
    ELSE IF state[0] = (action - 1) % 3 THEN Return(None, None, Some(-1))
    ELSE IF state[0] = (action + 1) % 3 THEN Return(None, None, Some(1))
    ELSE ReturnNone

(* Python's % with a positive modulus is non-negative, as TLA+'s % is *)
RPSStep(state, action) ==
    IF state[0] < 0 THEN Return(Some(Tup(<<action>>)), Some(-1), None)
    ELSE IF state[0] = action THEN Return(None, None, Some(0))
    ELSE IF state[0] = (action - 1) % 3 THEN Return(None, None, Some(-1))
    ELSE IF state[0] = (action + 1) % 3 THEN Return(None, None, Some(1))
    ELSE ReturnNone

(* ---- TicTacToe -------------------------------------------------------- *)
START == [i \in 0..8 |-> 0]

WINSNoAntiDiagonal == << <<0, 1, 2>>, <<0, 3, 6>>, <<0, 4, 8>>, <<1, 4, 7>>,
                         <<2, 5, 8>>, <<3, 4, 5>>, <<6, 7, 8>> >>

WINS == << <<0, 1, 2>>, <<0, 3, 6>>, <<0, 4, 8>>, <<1, 4, 7>>,
           <<2, 4, 6>>, <<2, 5, 8>>, <<3, 4, 5>>, <<6, 7, 8>> >>

RECURSIVE SumUpTo(_, _)
SumUpTo(state, n) == IF n < 0 THEN 0 ELSE state[n] + SumUpTo(state, n - 1)

(* the builtin sum over a tuple *)
sum(state) == SumUpTo(state, len(state) - 1)

(* TTTValid and TTTStep are the bodies under @memoize; the decorator is    *)
(* modelled further down, around these bodies                              *)
TTTValid(state) == [i \in DOMAIN state |-> state[i] = 0]

TTTStepSameTurn(state, action) ==
    IF state[action] # 0
    THEN Raise
    ELSE LET player == IF sum(state) # 0 THEN -1 ELSE 1
             board == [i \in DOMAIN state |-> IF i = action THEN player ELSE state[i]]
         IN  IF \E w \in 1..Len(WINS) :
                    /\ board[WINS[w][1]] = board[WINS[w][2]]
                    /\ board[WINS[w][2]] = board[WINS[w][3]]
                    /\ board[WINS[w][3]] = player
             THEN Return(None, None, Some(player))
             ELSE IF \A i \in DOMAIN board : board[i] # 0
                  THEN Return(None, None, Some(0))
                  ELSE Return(Some(board), Some(player), None)

TTTStepNoDraw(state, action) ==
    IF state[action] # 0
    THEN Raise
    ELSE LET player == IF sum(state) # 0 THEN -1 ELSE 1
             board == [i \in DOMAIN state |-> IF i = action THEN player ELSE state[i]]
         IN  IF \E w \in 1..Len(WINS) :
                    /\ board[WINS[w][1]] = board[WINS[w][2]]
                    /\ board[WINS[w][2]] = board[WINS[w][3]]
                    /\ board[WINS[w][3]] = player
             THEN Return(None, None, Some(player))
             ELSE Return(Some(board), Some(-player), None)

TTTStepNoAssert(state, action) ==
    LET player == IF sum(state) # 0 THEN -1 ELSE 1
        board == [i \in DOMAIN state |-> IF i = action THEN player ELSE state[i]]
    IN  IF \E w \in 1..Len(WINS) :
               /\ board[WINS[w][1]] = board[WINS[w][2]]
               /\ board[WINS[w][2]] = board[WINS[w][3]]
               /\ board[WINS[w][3]] = player
        THEN Return(None, None, Some(player))
        ELSE IF \A i \in DOMAIN board : board[i] # 0
             THEN Return(None, None, Some(0))
             ELSE Return(Some(board), Some(-player), None)

(* the for/else over WINS: every matching triple gives the same result, so *)
(* the break at the first match is an existential                          *)
TTTStep(state, action) ==
    IF state[action] # 0
    THEN Raise
    ELSE LET player == IF sum(state) # 0 THEN -1 ELSE 1
             board == [i \in DOMAIN state |-> IF i = action THEN player ELSE state[i]]
         IN  IF \E w \in 1..Len(WINS) :
                    /\ board[WINS[w][1]] = board[WINS[w][2]]
                    /\ board[WINS[w][2]] = board[WINS[w][3]]
                    /\ board[WINS[w][3]] = player
             THEN Return(None, None, Some(player))
             ELSE IF \A i \in DOMAIN board : board[i] # 0
                  THEN Return(None, None, Some(0))
                  ELSE Return(Some(board), Some(-player), None)

(* ---- the list `games` and dispatch on the variant --------------------- *)
games == {"Count", "Narrow", "Bandit", "RockPaperScissors", "TicTacToe"}

start(g) ==
    CASE g = "Count" -> {CountStart}
      [] g = "Narrow" -> {NarrowStart}
      [] g = "Bandit" -> BanditStart
      [] g = "RockPaperScissors" -> {RPSStart}
      [] g = "TicTacToe" -> {START}

valid(g, s) ==
    CASE g = "Count" -> CountValid(s)
      [] g = "Narrow" -> NarrowValid(s)
      [] g = "Bandit" -> BanditValid(s)
      [] g = "RockPaperScissors" -> RPSValid(s)
      [] g = "TicTacToe" -> TTTValid(s)

step(g, s, a) ==
    CASE g = "Count" -> CountStep(s, a)
      [] g = "Narrow" -> NarrowStep(s, a)
      [] g = "Bandit" -> BanditStep(s, a)
      [] g = "RockPaperScissors" -> RPSStep(s, a)
      [] g = "TicTacToe" -> TTTStep(s, a)

(* ---- state ------------------------------------------------------------ *)
VARIABLES
    game,      \* the variant being played
    state,     \* Some(current state), None once the game is over
    player,    \* Some(player to move), None once the game is over
    outcome,   \* None while the game runs, Some(outcome) once it is over
    call,      \* None, or Some of the last call of step: state, action, validity vector, result
    nsteps,    \* number of steps of this play that returned
    cache,     \* per memoized function, its dict `cache`: key -> stored result
    called,    \* per memoized function and key, the calls of memoized_func begun
    executed,  \* per memoized function and key, the executions of the wrapped body
    thr,       \* per thread, its position inside memoized_func and its locals
    ret,       \* None, or Some of the last completed call of memoized_func
    samp,      \* util.py: the scores and mask at hand and the last call of softmax / sample
    ck         \* Checkers: the heap of board objects, the caller's state, the last call of step

playVars == <<game, state, player, outcome, call, nsteps>>

memoVars == <<cache, called, executed, thr, ret>>

utilVars == <<samp>>

checkersVars == <<ck>>

vars == <<game, state, player, outcome, call, nsteps, cache, called, executed, thr, ret,
          samp, ck>>

(* ---- memoize around TicTacToe.valid and TicTacToe.step ---------------- *)
(* bounds of the calls made of the memoized functions *)
MemoCells == 2

MaxCalls == 3

NThreads == 2

Threads == 1..NThreads

(* boards passed to the memoized functions: the start board and the boards *)
(* after a first move into one of the first MemoCells cells                *)
MemoStates == {START} \cup {[START EXCEPT ![c] = 1] : c \in 0..(MemoCells - 1)}

(* the two functions of the module decorated with @memoize *)
Memoized == {"valid", "step"}

(* the argument tuples of the calls made (self, the single instance, left out) *)
Args(f) ==
    IF f = "valid"
    THEN {<<s>> : s \in MemoStates}
    ELSE {<<s, a>> : s \in MemoStates, a \in 0..(MemoCells - 1)}

(* the wrapped body func applied to args: it returns a value or raises *)
func(f, args) ==
    IF f = "valid"
    THEN [raised |-> FALSE, value |-> Some(TTTValid(args[1]))]
    ELSE LET r == TTTStep(args[1], args[2])
         IN  IF r.kind = "raise"
             THEN [raised |-> TRUE, value |-> None]
             ELSE [raised |-> FALSE, value |-> Some(r)]

Idle == [pc |-> "idle", f |-> "step", key |-> <<>>, val |-> None, ran |-> FALSE]

InCacheByState(f, key) == \E k \in DOMAIN cache[f] : k[1] = key[1]

NeverInCache(f, key) == FALSE

(* `key in cache` *)
InCache(f, key) == key \in DOMAIN cache[f]

SetItemEvicting(c, key, v) == [k \in {key} |-> v]

StoreNothing(c, key, v) == c

(* the dict c after `c[key] = v` *)
SetItem(c, key, v) == [k \in DOMAIN c \cup {key} |-> IF k = key THEN v ELSE c[k]]

MemoInit ==
    /\ cache = [f \in Memoized |-> <<>>]
    /\ called = [f \in Memoized |-> [k \in Args(f) |-> 0]]
    /\ executed = [f \in Memoized |-> [k \in Args(f) |-> 0]]
    /\ thr = [t \in Threads |-> Idle]
    /\ ret = None

TotalCalled ==
    LET RECURSIVE Total(_, _)
        Total(f, S) == IF S = {} THEN 0
                       ELSE LET k == CHOOSE x \in S : TRUE
                            IN  called[f][k] + Total(f, S \ {k})
    IN  Total("valid", Args("valid")) + Total("step", Args("step"))

(* memoized_func is entered: key = tuple(args); if key not in cache *)
MemoBegin(t, f, args) ==
    /\ thr[t].pc = "idle"
    /\ TotalCalled < MaxCalls
    /\ called' = [called EXCEPT ![f][args] = @ + 1]
    /\ thr' = [thr EXCEPT ![t] =
                  [pc |-> IF InCache(f, args) THEN "return" ELSE "body",
                   f |-> f, key |-> args, val |-> None, ran |-> FALSE]]
    /\ UNCHANGED <<cache, executed, ret>>

MemoBodyStoresRaise(t) ==
    /\ thr[t].pc = "body"
    /\ executed' = [executed EXCEPT ![thr[t].f][thr[t].key] = @ + 1]
    /\ LET r == func(thr[t].f, thr[t].key)
       IN  /\ thr' = [thr EXCEPT ![t] =
                         [pc |-> "store", f |-> thr[t].f, key |-> thr[t].key,
                          val |-> Some(r), ran |-> TRUE]]
           /\ UNCHANGED ret
    /\ UNCHANGED <<cache, called>>

(* the body of func runs; an exception leaves memoized_func before the store *)
MemoBody(t) ==
    /\ thr[t].pc = "body"
    /\ executed' = [executed EXCEPT ![thr[t].f][thr[t].key] = @ + 1]
    /\ LET r == func(thr[t].f, thr[t].key)
       IN  IF r.raised
           THEN /\ thr' = [thr EXCEPT ![t] = Idle]
                /\ ret' = Some([thread |-> t, f |-> thr[t].f, key |-> thr[t].key,
                                raised |-> TRUE, value |-> None, ran |-> TRUE])
           ELSE /\ thr' = [thr EXCEPT ![t] =
                              [pc |-> "store", f |-> thr[t].f, key |-> thr[t].key,
                               val |-> r.value, ran |-> TRUE]]
                /\ UNCHANGED ret
    /\ UNCHANGED <<cache, called>>

(* cache[key] = <the value func returned> *)
MemoStore(t) ==
    /\ thr[t].pc = "store"
    /\ cache' = [cache EXCEPT ![thr[t].f] =
                    SetItem(@, thr[t].key, CHOOSE v \in thr[t].val : TRUE)]
    /\ thr' = [thr EXCEPT ![t] =
                  [pc |-> "return", f |-> thr[t].f, key |-> thr[t].key,
                   val |-> None, ran |-> TRUE]]
    /\ UNCHANGED <<called, executed, ret>>

(* return cache[key]; the subscription raises KeyError on a missing key *)
MemoReturn(t) ==
    /\ thr[t].pc = "return"
    /\ ret' = IF thr[t].key \in DOMAIN cache[thr[t].f]
              THEN Some([thread |-> t, f |-> thr[t].f, key |-> thr[t].key,
                         raised |-> FALSE, value |-> Some(cache[thr[t].f][thr[t].key]),
                         ran |-> thr[t].ran])
              ELSE Some([thread |-> t, f |-> thr[t].f, key |-> thr[t].key,
                         raised |-> TRUE, value |-> None, ran |-> thr[t].ran])
    /\ thr' = [thr EXCEPT ![t] = Idle]
    /\ UNCHANGED <<cache, called, executed>>

(* no call of memoized_func is in progress *)
AllIdle == \A t \in Threads : thr[t].pc = "idle"

(* ---- util.py: softmax and sample ------------------------------------- *)
(* A float is modelled by its class: zero, positive (finite) or NaN.  That  *)
(* is what decides whether a probability is exactly 0 and whether the       *)
(* normalisation divides 0 by 0.  Scores are finite and integral.           *)
Zero == "zero"

Pos == "positive"

NaN == "nan"

(* bounds of the score vectors: lengths 1..MaxLen, entries k * ScoreStep    *)
MaxLen == 2

MaxScoreK == 2

ScoreStep == 400

(* exp(d) of a double d <= 0 is positive down to about -745.13 and          *)
(* underflows to 0.0 below                                                  *)
ExpUnderflow == 745

ScoreValues == {k * ScoreStep : k \in 0..MaxScoreK}

Vectors(S) == UNION {[0..(n - 1) -> S] : n \in 1..MaxLen}

(* x.max() *)
VecMax(x) == CHOOSE m \in {x[i] : i \in DOMAIN x} : \A i \in DOMAIN x : x[i] <= m

(* np.exp(d) for d <= 0 *)
Exp(d) == IF d < -ExpUnderflow THEN Zero ELSE Pos

(* e * m for a mask entry m in {0, 1} *)
Mul(e, m) == IF m = 0 THEN Zero ELSE e

(* e.sum() of entries that are zero or positive *)
VecSum(e) == IF \A i \in DOMAIN e : e[i] = Zero THEN Zero ELSE Pos

(* e_i / s under numpy's default error state: 0.0 / 0.0 is NaN with a       *)
(* RuntimeWarning, nothing is raised                                        *)
Div(ei, s) == IF s = Zero THEN NaN ELSE ei

(* softmax(x, mask): e = np.exp(x - x.max()) * mask; s = e.sum(); e / s *)
softmax(x, mask) ==
    LET e == [i \in DOMAIN x |-> Mul(Exp(x[i] - VecMax(x)), mask[i])]
        s == VecSum(e)
    IN  [i \in DOMAIN x |-> Div(e[i], s)]

(* np.random.choice(range(len(probs)), p=probs): ValueError when p holds a  *)
(* NaN, else one of the indices of positive probability                     *)
Choice(probs) ==
    IF \E i \in DOMAIN probs : probs[i] = NaN
    THEN {[kind |-> "raise", probs |-> probs, index |-> -1]}
    ELSE {[kind |-> "index", probs |-> probs, index |-> i] :
             i \in {j \in DOMAIN probs : probs[j] = Pos}}

(* sample(logits, valid): probs = softmax(logits, valid); the choice *)
sample(logits, mask) == Choice(softmax(logits, mask))

NoCall == [kind |-> "none", probs |-> <<>>, index |-> -1]

(* no score vector at hand: the value of samp outside SpecSample *)
SampIdle == samp = [x |-> <<>>, mask |-> <<>>, out |-> NoCall]

SampInit ==
    \E x \in Vectors(ScoreValues) : \E mask \in [DOMAIN x -> {0, 1}] :
        samp = [x |-> x, mask |-> mask, out |-> NoCall]

(* a call softmax(x, mask) *)
DoSoftmax ==
    /\ samp.out.kind = "none"
    /\ samp' = [samp EXCEPT !.out =
                   [kind |-> "probs", probs |-> softmax(samp.x, samp.mask), index |-> -1]]
    /\ UNCHANGED <<playVars, memoVars, checkersVars>>

(* a call sample(x, mask) *)
DoSample ==
    /\ samp.out.kind = "none"
    /\ \E r \in sample(samp.x, samp.mask) : samp' = [samp EXCEPT !.out = r]
    /\ UNCHANGED <<playVars, memoVars, checkersVars>>

(* ---- Checkers and the external board engine --------------------------- *)
(* Boards are mutable objects: ck.heap maps an object to its contents, the  *)
(* sequence of moves applied to it.  The engine (module checkers) lies      *)
(* outside src/; its operations follow the protocol of the external         *)
(* board-engine capability: a Board constructor, a non-mutating copy, and   *)
(* an update that applies a move to the board it is called on and reports   *)
(* illegality.  Which moves are legal is left open.                         *)
NMoves == 2

MaxBoards == 4

Moves == 1..NMoves

(* checkers.Board(): a fresh board *)
BoardNew == <<>>

(* board.copy(): a new object with the contents of board; board stays as is *)
BoardCopy(heap, b) ==
    LET n == Cardinality(DOMAIN heap) + 1
    IN  [id |-> n, heap |-> [o \in DOMAIN heap \cup {n} |-> IF o = n THEN heap[b] ELSE heap[o]]]

(* board.update(action, side): the contents afterwards and the verdict; a   *)
(* legal move is applied, an illegal one is reported, applied or not        *)
BoardUpdate(contents, action, side) ==
    {[contents |-> Append(contents, action), illegal |-> FALSE],
     [contents |-> Append(contents, action), illegal |-> TRUE],
     [contents |-> contents, illegal |-> TRUE]}

(* Checkers.player_type: None here stands for the ValueError *)
player_type(p) ==
    IF p = 1 THEN Some("white")
    ELSE IF p = -1 THEN Some("black")
    ELSE None

(* the value of ck outside SpecCheckers *)
CheckersIdle == ck = <<>>

NoStep == [player |-> 0, action |-> 0, copy |-> 0, updated |-> FALSE,
           illegal |-> FALSE, result |-> ReturnNone]

(* Checkers.start() returns a Board; the caller holds it as its state's board *)
CheckersInit ==
    ck = [heap |-> [o \in {1} |-> BoardNew], board |-> 1, steps |-> 0, out |-> NoStep]

CheckersStepInPlace(p, action) ==
    /\ ck # <<>>
    /\ Cardinality(DOMAIN ck.heap) < MaxBoards
    /\ LET c == BoardCopy(ck.heap, ck.board)
           side == player_type(p)
       IN  IF side = None
           THEN ck' = [ck EXCEPT !.heap = c.heap, !.steps = @ + 1,
                          !.out = [player |-> p, action |-> action, copy |-> c.id,
                                   updated |-> FALSE, illegal |-> FALSE, result |-> Raise]]
           ELSE \E u \in BoardUpdate(ck.heap[ck.board], action, CHOOSE s \in side : TRUE) :
                   ck' = [ck EXCEPT
                             !.heap = [c.heap EXCEPT ![ck.board] = u.contents],
                             !.steps = @ + 1,
                             !.out = [player |-> p, action |-> action, copy |-> c.id,
                                      updated |-> TRUE, illegal |-> u.illegal,
                                      result |-> IF u.illegal THEN Raise ELSE ReturnNone]]
    /\ UNCHANGED <<playVars, memoVars, utilVars>>

(* Checkers.step(state, action) with state = (p, the caller's board):       *)
(*   board = board.copy()                                                   *)
(*   illegal = board.update(action, self.player_type(player))               *)
(*   if illegal: raise ValueError                                           *)
(* and the body ends there, without a return statement                      *)
CheckersStep(p, action) ==
    /\ ck # <<>>
    /\ Cardinality(DOMAIN ck.heap) < MaxBoards
    /\ LET c == BoardCopy(ck.heap, ck.board)
           side == player_type(p)
       IN  IF side = None
           THEN ck' = [ck EXCEPT !.heap = c.heap, !.steps = @ + 1,
                          !.out = [player |-> p, action |-> action, copy |-> c.id,
                                   updated |-> FALSE, illegal |-> FALSE, result |-> Raise]]
           ELSE \E u \in BoardUpdate(c.heap[c.id], action, CHOOSE s \in side : TRUE) :
                   ck' = [ck EXCEPT
                             !.heap = [c.heap EXCEPT ![c.id] = u.contents],
                             !.steps = @ + 1,
                             !.out = [player |-> p, action |-> action, copy |-> c.id,
                                      updated |-> TRUE, illegal |-> u.illegal,
                                      result |-> IF u.illegal THEN Raise ELSE ReturnNone]]
    /\ UNCHANGED <<playVars, memoVars, utilVars>>

(* a call of step by a caller that passes any player value and any move *)
DoCheckersStep == \E p \in {1, -1, 0} : \E action \in Moves : CheckersStep(p, action)

(* ---- one play of a variant -------------------------------------------- *)
TheState == CHOOSE s \in state : TRUE

PlayInit ==
    /\ game \in games
    /\ \E s \in start(game) : state = Some(s)
    /\ player = Some(1)
    /\ outcome = None
    /\ call = None
    /\ nsteps = 0

Init == PlayInit /\ MemoInit /\ SampIdle /\ CheckersIdle

(* the caller calls step(state, action) and takes over what it returns; an *)
(* exception leaves the caller with the state it had                       *)
Call(a) ==
    LET s == TheState
        v == valid(game, s)
        r == step(game, s, a)
    IN  /\ call' = Some([state |-> s, action |-> a, valid |-> v,
                         mover |-> player, result |-> r])
        /\ IF r.kind = "raise"
           THEN UNCHANGED <<state, player, outcome, nsteps>>
           ELSE /\ state' = r.next_state
                /\ player' = r.next_player
                /\ outcome' = r.outcome
                /\ nsteps' = nsteps + 1
        /\ UNCHANGED game

(* a step with an action marked true in valid(state) *)
Play ==
    /\ state # None
    /\ \E a \in DOMAIN valid(game, TheState) :
          /\ valid(game, TheState)[a]
          /\ Call(a)
    /\ UNCHANGED <<memoVars, utilVars, checkersVars>>

(* a step with an action of the action space that valid(state) marks false *)
Misuse ==
    /\ state # None
    /\ \E a \in DOMAIN valid(game, TheState) :
          /\ ~valid(game, TheState)[a]
          /\ Call(a)
    /\ UNCHANGED <<memoVars, utilVars, checkersVars>>

Next == Play \/ Misuse

Spec == Init /\ [][Next]_vars

(* ---- a sequential series of calls of the memoized functions ----------- *)
InitMemo ==
    /\ game = "TicTacToe"
    /\ state = Some(START)
    /\ player = Some(1)
    /\ outcome = None
    /\ call = None
    /\ nsteps = 0
    /\ MemoInit
    /\ SampIdle
    /\ CheckersIdle

(* the single thread of a sequential program *)
MainThread == CHOOSE t \in Threads : \A u \in Threads : t <= u

(* a call begins only when the one before it has returned or raised *)
SeqBegin ==
    /\ AllIdle
    /\ \E f \in Memoized : \E args \in Args(f) : MemoBegin(MainThread, f, args)
    /\ UNCHANGED <<playVars, utilVars, checkersVars>>

SeqBody == MemoBody(MainThread) /\ UNCHANGED <<playVars, utilVars, checkersVars>>

SeqStore == MemoStore(MainThread) /\ UNCHANGED <<playVars, utilVars, checkersVars>>

SeqReturn == MemoReturn(MainThread) /\ UNCHANGED <<playVars, utilVars, checkersVars>>

NextMemo == SeqBegin \/ SeqBody \/ SeqStore \/ SeqReturn

SpecMemo == InitMemo /\ [][NextMemo]_vars

(* ---- concurrent calls of the memoized functions ----------------------- *)
(* threads run memoized_func interleaved at its dict operations: the        *)
(* membership test, the wrapped body, the store and the final subscription  *)
ThreadCalls == 2

ThreadBegin ==
    /\ TotalCalled < ThreadCalls
    /\ \E t \in Threads, f \in Memoized : \E args \in Args(f) : MemoBegin(t, f, args)
    /\ UNCHANGED <<playVars, utilVars, checkersVars>>

ThreadBody == (\E t \in Threads : MemoBody(t)) /\ UNCHANGED <<playVars, utilVars, checkersVars>>

ThreadStore == (\E t \in Threads : MemoStore(t)) /\ UNCHANGED <<playVars, utilVars, checkersVars>>

ThreadReturn == (\E t \in Threads : MemoReturn(t)) /\ UNCHANGED <<playVars, utilVars, checkersVars>>

NextThreads == ThreadBegin \/ ThreadBody \/ ThreadStore \/ ThreadReturn

SpecThreads == InitMemo /\ [][NextThreads]_vars

(* ---- calls of softmax and sample -------------------------------------- *)
InitSample ==
    /\ game = "TicTacToe"
    /\ state = Some(START)
    /\ player = Some(1)
    /\ outcome = None
    /\ call = None
    /\ nsteps = 0
    /\ MemoInit
    /\ SampInit
    /\ CheckersIdle

NextSample == DoSoftmax \/ DoSample

SpecSample == InitSample /\ [][NextSample]_vars

(* ---- calls of Checkers.step ------------------------------------------- *)
InitCheckers ==
    /\ game = "TicTacToe"
    /\ state = Some(START)
    /\ player = Some(1)
    /\ outcome = None
    /\ call = None
    /\ nsteps = 0
    /\ MemoInit
    /\ SampIdle
    /\ CheckersInit

NextCheckers == DoCheckersStep

SpecCheckers == InitCheckers /\ [][NextCheckers]_vars

(* ---- properties of one play ------------------------------------------- *)
TheCall == CHOOSE c \in call : TRUE

(* the last call of step passed an action that valid(state) marks true *)
ValidCall == call # None /\ TheCall.valid[TheCall.action]

IsContinuation(r) ==
    /\ r.kind = "tuple"
    /\ r.next_state # None
    /\ r.next_player \in {Some(1), Some(-1)}
    /\ r.outcome = None

IsTermination(r) ==
    /\ r.kind = "tuple"
    /\ r.next_state = None
    /\ r.next_player = None
    /\ r.outcome \in {Some(-1), Some(0), Some(1)}

(* C1: in every variant, step on a reachable state with an action marked  *)
(* valid returns a 3-tuple that is a continuation (state and player in     *)
(* {+1,-1} present, outcome null) or a termination (state and player null, *)
(* outcome in {-1,0,+1}): exactly one of the two, never a bare None        *)
C1_ContinuationXorTermination ==
    ValidCall =>
        /\ TheCall.result.kind = "tuple"
        /\ IsContinuation(TheCall.result) # IsTermination(TheCall.result)

C1_Witness ==
    /\ game = "RockPaperScissors"
    /\ ValidCall
    /\ TheCall.state[0] = TheCall.action
    /\ IsTermination(TheCall.result)

ActionSpace(g) ==
    CASE g = "Count" -> 3
      [] g = "Narrow" -> 3
      [] g = "Bandit" -> 10
      [] g = "RockPaperScissors" -> 3
      [] g = "TicTacToe" -> 9

(* C2: in every variant the validity vector of every reachable state has   *)
(* the variant's fixed length (3, 3, 10, 3, 9), indexed from 0, and every  *)
(* continuation state has the shape of the start state                     *)
C2_FixedActionSpace ==
    state # None =>
        /\ DOMAIN valid(game, TheState) = 0..(ActionSpace(game) - 1)
        /\ len(valid(game, TheState)) = ActionSpace(game)
        /\ \A s \in start(game) : DOMAIN TheState = DOMAIN s
        /\ \A i \in DOMAIN TheState : TheState[i] \in Int

C2_Witness ==
    /\ game = "Narrow"
    /\ nsteps = 2
    /\ state = Some(Tup(<<1>>))
    /\ len(valid(game, TheState)) = 3

(* C3: in every variant, step with an action of the action space that      *)
(* valid(state) marks false raises: it returns neither a continuation nor  *)
(* an outcome, and the caller's state, player and outcome stay as they were *)
C3_InvalidActionRaises ==
    (call # None /\ ~TheCall.valid[TheCall.action]) =>
        /\ TheCall.result = Raise
        /\ state = Some(TheCall.state)
        /\ player = TheCall.mover
        /\ outcome = None

C3_Witness ==
    /\ game = "TicTacToe"
    /\ call # None
    /\ ~TheCall.valid[TheCall.action]
    /\ TheCall.state[TheCall.action] = -1
    /\ TheCall.result.kind = "raise"

(* the outcome the rock/paper/scissors precedence gives the second action a *)
(* against the recorded first symbol r                                      *)
RPSRule(r, a) ==
    CASE a = r -> 0
      [] (a - 1) % 3 = r -> -1
      [] (a + 1) % 3 = r -> 1

(* C4: in RockPaperScissors the first step records its action r as state   *)
(* (r,) with next player -1; the second step with action a is terminal     *)
(* with outcome 0 if a = r, -1 if (a-1) mod 3 = r, +1 if (a+1) mod 3 = r;  *)
(* for each r exactly one reply gives each of -1, 0, +1                    *)
C4_RPSPrecedence ==
    game = "RockPaperScissors" =>
        /\ nsteps = 1 =>
              /\ TheCall.state = RPSStart
              /\ state = Some(Tup(<<TheCall.action>>))
              /\ player = Some(-1)
              /\ outcome = None
              /\ \A o \in {-1, 0, 1} :
                    Cardinality({a \in 0..2 :
                        RPSStep(TheState, a) = Return(None, None, Some(o))}) = 1
        /\ nsteps = 2 =>
              /\ TheCall.state[0] \in 0..2
              /\ TheCall.result =
                    Return(None, None, Some(RPSRule(TheCall.state[0], TheCall.action)))
              /\ state = None /\ player = None
              /\ outcome = Some(RPSRule(TheCall.state[0], TheCall.action))

C4_Witness ==
    /\ game = "RockPaperScissors"
    /\ nsteps = 2
    /\ (TheCall.action - 1) % 3 = TheCall.state[0]
    /\ outcome = Some(-1)

rock == 0

paper == 1

scissors == 2

(* the play of RockPaperScissors whose first action was x and second was y *)
RPSPlayed(x, y) ==
    /\ game = "RockPaperScissors"
    /\ nsteps = 2
    /\ TheCall.state = Tup(<<x>>)
    /\ TheCall.action = y

(* in RockPaperScissors the state after the first step is the first action *)
RPSRecordsFirst ==
    (game = "RockPaperScissors" /\ nsteps = 1) => state = Some(Tup(<<TheCall.action>>))

(* C5 as stated: rock then scissors ends +1, rock then rock ends 0, paper  *)
(* then rock ends -1                                                       *)
C5_Original ==
    /\ RPSRecordsFirst
    /\ RPSPlayed(rock, scissors) => outcome = Some(1)
    /\ RPSPlayed(rock, rock) => outcome = Some(0)
    /\ RPSPlayed(paper, rock) => outcome = Some(-1)

(* C5 as amended: rock then scissors ends +1, rock then rock ends 0, and   *)
(* paper then rock ends +1 (paper beats rock, the first player wins)       *)
C5_RPSExamples ==
    /\ RPSRecordsFirst
    /\ RPSPlayed(rock, scissors) => outcome = Some(1)
    /\ RPSPlayed(rock, rock) => outcome = Some(0)
    /\ RPSPlayed(paper, rock) => outcome = Some(1)

C5_Witness == RPSPlayed(paper, rock) /\ outcome # None

(* the 8 lines of the 3x3 board: cell 3*row + column *)
Rows == {{3 * r + c : c \in 0..2} : r \in 0..2}

Columns == {{3 * r + c : r \in 0..2} : c \in 0..2}

Diagonals == {{4 * k : k \in 0..2}, {2 + 2 * k : k \in 0..2}}

Lines == Rows \cup Columns \cup Diagonals

(* the board b with marker m placed at cell a *)
Placed(b, a, m) == [b EXCEPT ![a] = m]

(* what C6 says a step of mover m at cell a of board b returns *)
TTTExpected(b, a, m) ==
    LET after == Placed(b, a, m)
    IN  IF \E l \in Lines : \A i \in l : after[i] = m
        THEN Return(None, None, Some(m))
        ELSE IF \A i \in 0..8 : after[i] # 0
             THEN Return(None, None, Some(0))
             ELSE Return(Some(after), Some(-m), None)

(* C6: in TicTacToe, with the mover's marker placed at the action: a line   *)
(* of three of the mover's markers (3 rows, 3 columns, 2 diagonals) gives   *)
(* the mover's marker as outcome, also on the last empty cell; else a full  *)
(* board gives outcome 0; else the play continues with the new board and    *)
(* the other player                                                         *)
C6_TTTOutcome ==
    (game = "TicTacToe" /\ ValidCall) =>
        /\ Cardinality(Lines) = 8
        /\ TheCall.mover \in {Some(1), Some(-1)}
        /\ \A m \in TheCall.mover :
              /\ TheCall.result = TTTExpected(TheCall.state, TheCall.action, m)
              /\ m = (IF nsteps % 2 = 1 THEN 1 ELSE -1)
        /\ state = TheCall.result.next_state
        /\ player = TheCall.result.next_player
        /\ outcome = TheCall.result.outcome

(* the first player wins by filling the last empty cell *)
C6_Witness ==
    /\ game = "TicTacToe"
    /\ ValidCall
    /\ nsteps = 9
    /\ Cardinality({i \in 0..8 : TheCall.state[i] = 0}) = 1
    /\ outcome = Some(1)

(* C7: in Bandit, for every hidden value h in 0..9 and action a in 0..9,    *)
(* the single step is terminal with outcome +1 if a = h and -1 otherwise    *)
C7_BanditOutcome ==
    game = "Bandit" =>
        /\ nsteps = 0 => (\E h \in 0..9 : state = Some(Tup(<<h>>)))
        /\ nsteps # 0 =>
              /\ nsteps = 1
              /\ TheCall.result =
                    Return(None, None,
                           Some(IF TheCall.action = TheCall.state[0] THEN 1 ELSE -1))
              /\ state = None /\ player = None
              /\ outcome = TheCall.result.outcome

C7_Witness ==
    /\ game = "Bandit"
    /\ nsteps = 1
    /\ TheCall.state[0] = 9
    /\ TheCall.action = 9
    /\ outcome = Some(1)

(* C8: in Count, from (0,), a step from (k,) with action a is terminal with *)
(* outcome +1 if a = k+1 and a = 2, continues with (a,) and player +1 if    *)
(* a = k+1 and a # 2, and is terminal with outcome -1 if a # k+1; the only  *)
(* winning play is 1 then 2                                                 *)
C8_CountRule ==
    (game = "Count" /\ call # None) =>
        LET k == TheCall.state[0]
            a == TheCall.action
        IN  /\ a = k + 1 /\ a = 2 => TheCall.result = Return(None, None, Some(1))
            /\ a = k + 1 /\ a # 2 =>
                  TheCall.result = Return(Some(Tup(<<a>>)), Some(1), None)
            /\ a # k + 1 => TheCall.result = Return(None, None, Some(-1))
            /\ state = TheCall.result.next_state
            /\ player = TheCall.result.next_player
            /\ outcome = TheCall.result.outcome
            /\ outcome = Some(1) => (nsteps = 2 /\ k = 1 /\ a = 2)
            /\ nsteps = 1 => TheCall.state = CountStart
            /\ (nsteps = 1 /\ state # None) => a = 1

C8_Witness ==
    /\ game = "Count"
    /\ nsteps = 2
    /\ TheCall.state = Tup(<<1>>)
    /\ TheCall.action = 2
    /\ outcome = Some(1)

(* C9: in Narrow, from bound 3, valid marks action i true iff i < n; action *)
(* 0 is terminal with outcome -1; a valid non-zero action a continues with *)
(* (a,) and player +1; so the bound and the number of valid actions         *)
(* strictly decrease on every continuing step and the only outcome is -1    *)
C9_NarrowRule ==
    game = "Narrow" =>
        /\ nsteps = 0 => state = Some(Tup(<<3>>))
        /\ outcome \in {None, Some(-1)}
        /\ \A s \in state : \A i \in 0..2 : NarrowValid(s)[i] <=> (i < s[0])
        /\ ValidCall =>
              LET n == TheCall.state[0]
                  a == TheCall.action
                  count(v) == Cardinality({i \in DOMAIN v : v[i]})
              IN  /\ \A i \in 0..2 : TheCall.valid[i] <=> (i < n)
                  /\ a = 0 => TheCall.result = Return(None, None, Some(-1))
                  /\ a # 0 => /\ TheCall.result = Return(Some(Tup(<<a>>)), Some(1), None)
                              /\ TheState[0] < n
                              /\ count(NarrowValid(TheState)) < count(TheCall.valid)
                  /\ state = TheCall.result.next_state
                  /\ player = TheCall.result.next_player
                  /\ outcome = TheCall.result.outcome

C9_Witness ==
    /\ game = "Narrow"
    /\ ValidCall
    /\ nsteps = 2
    /\ TheCall.state = Tup(<<2>>)
    /\ TheCall.action = 1
    /\ state = Some(Tup(<<1>>))

(* ---- properties of memoize -------------------------------------------- *)
TheRet == CHOOSE r \in ret : TRUE

(* the argument tuples on which the wrapped body raises: TicTacToe.step on *)
(* an occupied cell                                                        *)
BodyRaises(f, key) == f = "step" /\ key[1][key[2]] # 0

(* C10 as stated: in a sequential series of calls the wrapped body is       *)
(* executed at most once per distinct argument tuple                        *)
C10_Original == \A f \in Memoized : \A key \in Args(f) : executed[f][key] <= 1

(* between calls: every call begun of an argument tuple on which the body   *)
(* returns executed the body on the first call only and left the result in *)
(* the cache; a tuple on which the body raises has no entry and executed    *)
(* the body on every call                                                   *)
C10_AtMostOnce ==
    \A f \in Memoized : \A key \in Args(f) :
        IF BodyRaises(f, key)
        THEN /\ ~InCache(f, key)
             /\ AllIdle => executed[f][key] = called[f][key]
        ELSE /\ executed[f][key] <= 1
             /\ InCache(f, key) => executed[f][key] = 1
             /\ (AllIdle /\ called[f][key] >= 1) =>
                   (executed[f][key] = 1 /\ InCache(f, key))

(* a call that returns hands back the stored entry, and it executed the     *)
(* body exactly when it was the first call of its argument tuple            *)
C10_ReturnsStored ==
    \A r \in ret :
        ~r.raised =>
            /\ InCache(r.f, r.key)
            /\ r.value = Some(cache[r.f][r.key])
            /\ (AllIdle /\ called[r.f][r.key] >= 2) => executed[r.f][r.key] = 1

(* a stored entry is never evicted or overwritten *)
C10_EntriesKept ==
    \A f \in Memoized : \A key \in DOMAIN cache[f] :
        key \in DOMAIN cache'[f] /\ cache'[f][key] = cache[f][key]

(* C10 as amended: in a sequential series of calls the wrapped body is      *)
(* executed at most once per argument tuple on which it returns: the first  *)
(* call executes it and stores the result, every later call returns the     *)
(* stored result without executing it, and a stored entry is never evicted  *)
(* or overwritten; a call whose body raises stores nothing and the body is  *)
(* executed again on the next call with those arguments                     *)
C10_Memoize ==
    /\ [](C10_AtMostOnce /\ C10_ReturnsStored)
    /\ [][C10_EntriesKept]_vars

(* a second call with the same arguments returned the stored result         *)
(* without executing the body                                               *)
C10_Witness ==
    /\ AllIdle
    /\ ret # None
    /\ TheRet.f = "step"
    /\ ~TheRet.raised
    /\ ~TheRet.ran
    /\ called[TheRet.f][TheRet.key] = 2
    /\ executed[TheRet.f][TheRet.key] = 1
    /\ TheRet.value = Some(TTTStep(TheRet.key[1], TheRet.key[2]))

(* C11: every call of the memoized TicTacToe.step and TicTacToe.valid ends  *)
(* as the unwrapped function does on exactly those arguments, on an empty   *)
(* cache and on a populated one, and every stored entry is the unwrapped    *)
(* function's result for its own key                                        *)
C11_MemoEqualsBody ==
    /\ \A r \in ret :
          /\ r.raised = func(r.f, r.key).raised
          /\ r.value = func(r.f, r.key).value
    /\ \A f \in Memoized : \A key \in DOMAIN cache[f] :
          /\ key \in Args(f)
          /\ func(f, key) = [raised |-> FALSE, value |-> Some(cache[f][key])]

(* a call answered from a cache that holds entries of other argument tuples *)
C11_Witness ==
    /\ AllIdle
    /\ ret # None
    /\ TheRet.f = "step"
    /\ ~TheRet.ran
    /\ ~TheRet.raised
    /\ Cardinality(DOMAIN cache["step"]) >= 2
    /\ \E k \in DOMAIN cache["step"] :
          k # TheRet.key /\ k[1] = TheRet.key[1] /\ Some(cache["step"][k]) # TheRet.value

(* ---- further properties of one play ----------------------------------- *)
CountCells(b, m) == Cardinality({i \in DOMAIN b : b[i] = m})

(* C16: in every reachable TicTacToe state the +1 cells outnumber the -1    *)
(* cells by 0 or 1; the mover the parity rule infers is +1 at start() and   *)
(* in every continuation state equals the next_player the step returned,    *)
(* and the players alternate                                                *)
C16_TTTParity ==
    (game = "TicTacToe" /\ state # None) =>
        LET b == TheState
            inferred == IF CountCells(b, 1) - CountCells(b, -1) # 0 THEN -1 ELSE 1
        IN  /\ CountCells(b, 1) - CountCells(b, -1) \in {0, 1}
            /\ CountCells(b, 1) + CountCells(b, -1) = nsteps
            /\ player = Some(inferred)
            /\ nsteps = 0 => inferred = 1
            /\ ValidCall =>
                  /\ TheCall.result.next_player = Some(inferred)
                  /\ TheCall.mover = Some(-inferred)

C16_Witness ==
    /\ game = "TicTacToe"
    /\ ValidCall
    /\ nsteps = 3
    /\ player = Some(-1)
    /\ CountCells(TheState, 1) = 2
    /\ CountCells(TheState, -1) = 1

MinSteps(g) ==
    CASE g = "Count" -> 1
      [] g = "Narrow" -> 1
      [] g = "Bandit" -> 1
      [] g = "RockPaperScissors" -> 2
      [] g = "TicTacToe" -> 5

MaxSteps(g) ==
    CASE g = "Count" -> 2
      [] g = "Narrow" -> 3
      [] g = "Bandit" -> 1
      [] g = "RockPaperScissors" -> 2
      [] g = "TicTacToe" -> 9

(* C18: every play that picks valid actions ends after a bounded number of  *)
(* steps: at most 2 for Count, at most 3 for Narrow, exactly 1 for Bandit,  *)
(* exactly 2 for RockPaperScissors, between 5 and 9 for TicTacToe; a play   *)
(* still running has made fewer steps than the bound and can make another   *)
C18_BoundedPlay ==
    /\ nsteps <= MaxSteps(game)
    /\ (state = None) # (outcome = None)
    /\ state # None =>
          /\ nsteps < MaxSteps(game)
          /\ \E a \in DOMAIN valid(game, TheState) : valid(game, TheState)[a]
    /\ outcome # None => nsteps \in MinSteps(game)..MaxSteps(game)

C18_Witness ==
    /\ game = "TicTacToe"
    /\ nsteps = 5
    /\ outcome = Some(1)

(* the longest play of Narrow: 2, then 1, then 0 *)
C18_WitnessNarrow ==
    /\ game = "Narrow"
    /\ nsteps = 3
    /\ outcome = Some(-1)

(* C19: every non-terminal state, start() and every continuation state, has *)
(* a true entry in valid(state); a TicTacToe continuation state has an      *)
(* empty cell and no completed line                                         *)
C19_NonTerminalHasMove ==
    state # None =>
        /\ \E a \in DOMAIN valid(game, TheState) : valid(game, TheState)[a]
        /\ game = "TicTacToe" =>
              /\ \E i \in 0..8 : TheState[i] = 0
              /\ ~\E l \in Lines : \E m \in {1, -1} : \A i \in l : TheState[i] = m

C19_Witness ==
    /\ game = "TicTacToe"
    /\ ValidCall
    /\ nsteps = 8
    /\ state # None
    /\ Cardinality({i \in 0..8 : TheState[i] = 0}) = 1

(* a raising call of the memoized function returns from the body step *)
RaisingBodyStep(t) ==
    /\ thr[t].pc = "body"
    /\ thr'[t].pc # "body"
    /\ BodyRaises(thr[t].f, thr[t].key)

(* C20: when the wrapped function raises, the cache is left as it was: no   *)
(* entry is stored for those arguments and every entry keeps its value; a   *)
(* later call with the same arguments executes the body again and raises    *)
(* again                                                                    *)
C20_RaiseNotCached ==
    /\ [](\A f \in Memoized : \A key \in Args(f) :
             BodyRaises(f, key) =>
                /\ ~InCache(f, key)
                /\ AllIdle => executed[f][key] = called[f][key]
                /\ \A r \in ret : (r.f = f /\ r.key = key) => (r.raised /\ r.ran))
    /\ [][\A t \in Threads :
             RaisingBodyStep(t) =>
                /\ cache' = cache
                /\ thr'[t].pc = "idle"
                /\ \A r \in ret' : r.raised /\ r.key = thr[t].key]_vars

(* the second call with arguments on which the body raises ran the body     *)
(* again and raised, beside an entry stored earlier                         *)
C20_Witness ==
    /\ AllIdle
    /\ ret # None
    /\ TheRet.raised
    /\ BodyRaises(TheRet.f, TheRet.key)
    /\ called[TheRet.f][TheRet.key] = 2
    /\ executed[TheRet.f][TheRet.key] = 2
    /\ DOMAIN cache["step"] # {}

(* C17: with threads interleaving the membership test, the body and the    *)
(* store of memoize, every call ends as the wrapped function does on its    *)
(* arguments, every cache entry equals the function's result for its key,   *)
(* and an entry, once stored, is never removed or given another value (the  *)
(* body itself may run more than once for the same arguments)               *)
C17_ConcurrentMemo ==
    /\ [](/\ \A r \in ret :
                /\ r.raised = func(r.f, r.key).raised
                /\ r.value = func(r.f, r.key).value
          /\ \A f \in Memoized : \A key \in DOMAIN cache[f] :
                func(f, key) = [raised |-> FALSE, value |-> Some(cache[f][key])]
          /\ \A t \in Threads :
                thr[t].pc = "store" => thr[t].val = func(thr[t].f, thr[t].key).value)
    /\ [][\A f \in Memoized : \A key \in DOMAIN cache[f] :
             key \in DOMAIN cache'[f] /\ cache'[f][key] = cache[f][key]]_vars

(* two threads both missed the cache for the same arguments: the body ran   *)
(* twice, the entry was stored twice, and the second caller got its result  *)
C17_Witness ==
    /\ AllIdle
    /\ ret # None
    /\ TheRet.f = "step"
    /\ TheRet.ran
    /\ ~TheRet.raised
    /\ executed[TheRet.f][TheRet.key] = 2
    /\ called[TheRet.f][TheRet.key] = 2
    /\ TheRet.value = Some(cache[TheRet.f][TheRet.key])

(* ---- properties of softmax and sample --------------------------------- *)
MaskHasOne == \E i \in DOMAIN samp.mask : samp.mask[i] = 1

(* C12: for any score vector and any 0/1 mask of the same length with an    *)
(* entry equal to 1, softmax gives probability exactly 0 to every position  *)
(* whose mask entry is 0, and sample returns only an index whose mask entry *)
(* is 1                                                                     *)
C12_MaskedGetZero ==
    MaskHasOne =>
        /\ samp.out.kind = "probs" =>
              \A i \in DOMAIN samp.mask : samp.mask[i] = 0 => samp.out.probs[i] = Zero
        /\ samp.out.kind = "index" => samp.mask[samp.out.index] = 1

(* C13: softmax with a mask whose entries are all 0 raises; it returns no   *)
(* vector                                                                   *)
C13_AllZeroMaskRaises ==
    (samp.out.kind # "none" /\ \A i \in DOMAIN samp.mask : samp.mask[i] = 0) =>
        samp.out.kind = "raise"

(* ---- properties of Checkers.step -------------------------------------- *)
(* C14: Checkers.step never changes the board of the caller's state: the    *)
(* move goes to a copy, so the caller's board is the same object with the   *)
(* same contents after every step, returned or raised; and whenever the     *)
(* engine's update reports the move illegal, step raises                    *)
C14_CopyBeforeUpdate ==
    /\ [](/\ ck.heap[ck.board] = BoardNew
          /\ ck.steps > 0 =>
                /\ ck.out.copy # ck.board
                /\ (ck.out.updated /\ ck.out.illegal) => ck.out.result = Raise
                /\ ck.out.result = Raise => (~ck.out.updated \/ ck.out.illegal))
    /\ [][/\ ck'.board = ck.board
          /\ \A o \in DOMAIN ck.heap :
                o \in DOMAIN ck'.heap /\ ck'.heap[o] = ck.heap[o]]_vars

(* an illegal move that the engine applied all the same: the copy differs   *)
(* from the caller's board and step raised                                  *)
C14_Witness ==
    /\ ck.steps = 2
    /\ ck.out.updated
    /\ ck.out.illegal
    /\ ck.out.result = Raise
    /\ ck.heap[ck.out.copy] # ck.heap[ck.board]

(* C15: Checkers.step on a move the engine accepts returns a transition     *)
(* result: a continuation or a termination                                  *)
C15_CheckersReturnsResult ==
    (ck.steps > 0 /\ ck.out.updated /\ ~ck.out.illegal) =>
        (IsContinuation(ck.out.result) \/ IsTermination(ck.out.result))

====
